---- MODULE Spec2Model ----
(***************************************************************************)
(* Model of src/index.js: the node client that loads a proxy list, opens a *)
(* session with the gateway, pings it from a recurring timer and stops the *)
(* session on SIGINT.                                                      *)
(*                                                                         *)
(* JavaScript runs every callback to its next `await` without interleaving *)
(* (run to completion), so each action below is one such stretch of code:  *)
(* it starts where a timer, a stream event, a signal or a response resumes *)
(* the program and ends at the next await or at process.exit.              *)
(*                                                                         *)
(* Time is not measured.  A request may take anything up to the axios      *)
(* timeout of 30000 ms (line 64) while the timer period is 10000 ms        *)
(* (line 13), so a timer firing or a signal may arrive while any request   *)
(* is pending.  The one ordering of timers the model keeps is that a       *)
(* jitter delay, which is shorter than the timer period, is over before    *)
(* the timer fires again.                                                  *)
(***************************************************************************)
EXTENDS Integers, Sequences, FiniteSets, TLC

\* ------------------------------------------------------------- bounds
MaxProxies == 2      \* lines of proxies.txt
MaxFirings == 2      \* firings of the setInterval timer that are explored
MaxSignals == 2      \* SIGINT deliveries that are explored

\* ------------------------------------------------------------- program constants
PING_INTERVAL == 10000   \* period of the setInterval timer, ms
JITTER_BASE == 1000      \* delay(1000 + Math.random() * 4000)
JITTER_SPAN == 4000
ERROR_DELAY == 5000      \* delay(5000) on makeRequest's error path

\* ------------------------------------------------------------- values
Null == [type |-> "null"]
EmptyBody == [type |-> "empty"]           \* a 200 response whose body is falsy
Body(id) == [type |-> "object", _id |-> id]
SessionIds == {"sess-1", "sess-2"}
StartBodies == {Body(id) : id \in SessionIds} \cup {EmptyBody}
Truthy(v) == v.type = "object"
Date == [type |-> "date"]                 \* new Date(); the clock is not modelled

\* What the transport hands back: a response with a status (validateStatus is
\* false, so no status rejects), or a rejection (DNS, connect, timeout).
Responses ==
    {[kind |-> "response", status |-> s] : s \in {200, 204, 500}}
        \cup {[kind |-> "error", status |-> 0]}

ProcessInfo == [platform |-> "linux", arch |-> "x64", version |-> "v20"]

\* Where an invocation of the timer callback, or of the SIGINT handler, can be
\* suspended or has ended.  The invocations are closures without identity, so
\* the state keeps how many of them are at each place.
CyclePcs == {"jitter", "ip", "ping", "errDelay", "done", "failed"}
HandlerPcs == {"stop", "errDelay"}
Kinds == {"ip", "node", "start", "ping", "stop"}

VARIABLES
    nodeIdSet,       \* process.env.NODE_ID is set
    authTokenSet,    \* process.env.AUTH_TOKEN is set
    proxyFile,       \* number of lines of proxies.txt
    proxies,         \* the proxies array
    topPc,           \* "module" | "reading" | "main"
    mainPc,          \* where main() is suspended
    ipAddress,       \* main's local ipAddress ("undefined" before line 178)
    hardwareInfo,    \* main's local hardwareInfo
    fatalCause,      \* the error main's catch block caught
    currentSession,
    lastPingTime,    \* Null, or the Date of the last successful ping
    timerSet,        \* the setInterval timer is registered
    cycles,          \* per place, the invocations of the timer callback there
    firings,         \* number of timer firings so far
    handlers,        \* per place, the invocations of the SIGINT handler there
    signals,         \* number of SIGINT deliveries so far
    exitSite,        \* "none", or the process.exit call that ended the process
    exitCode,
    issued,          \* per kind of request, how many were issued
    lastProxy,       \* index getRandomProxy chose for the last makeRequest
    startLog,        \* bodies of the start-session requests issued
    pingLog,         \* bodies of the ping requests issued
    stopLog,         \* bodies of the stop-session requests issued
    nodeData,        \* main's local nodeData (Null before line 189 returns)
    errDelays,       \* ms of each delay started on makeRequest's error path, in order
    gatewaySession   \* the session the gateway created for this run, or Null

vars == <<nodeIdSet, authTokenSet, proxyFile, proxies, topPc, mainPc, ipAddress,
          hardwareInfo, fatalCause, currentSession, lastPingTime, timerSet,
          cycles, firings, handlers, signals, exitSite, exitCode, issued,
          lastProxy, startLog, pingLog, stopLog, nodeData, errDelays,
          gatewaySession>>

envVars == <<nodeIdSet, authTokenSet, proxyFile>>
mainVars == <<mainPc, ipAddress, hardwareInfo, fatalCause, timerSet>>
cycleVars == <<cycles, firings>>
sigVars == <<handlers, signals>>
exitVars == <<exitSite, exitCode>>
logVars == <<startLog, pingLog, stopLog>>

exited == exitSite # "none"

\* ------------------------------------------------------------- helpers
\* Mutant of MakeRequestOk: every 2xx status is taken as success.
MakeRequestOkAny2xx(resp) ==
    resp.kind = "response" /\ resp.status \in 200..299

\* makeRequest, line 108: only status 200 returns the body.
MakeRequestOk(resp) == resp.kind = "response" /\ resp.status = 200

\* Mutant of GetIpResult: without the status check and the catch, a failed
\* lookup yields response.data.ip of a response that has none.
GetIpResultNoSentinel(resp) ==
    IF resp.kind = "response" /\ resp.status = 200 THEN "1.2.3.4" ELSE "undefined"

\* getIpAddress, lines 82-90: the ip of a 200 response, "unknown" otherwise.
GetIpResult(resp) ==
    IF resp.kind = "response" /\ resp.status = 200 THEN "1.2.3.4" ELSE "unknown"

\* getRandomProxy, line 58: Math.floor(Math.random() * proxies.length) is any
\* index of the array (0-based in the code, 1-based here).
GetRandomProxy == 1..Len(proxies)

\* makeRequest, lines 113-117: the delay awaited before the error is rethrown.
\* `failures` is the number of requests that failed before this one; the code
\* keeps no such count and waits the same time whatever it is.
MakeRequestErrorDelay(failures) == ERROR_DELAY

\* makeRequest's catch block up to its await (lines 113-116).
StartErrorDelay == errDelays' = Append(errDelays, MakeRequestErrorDelay(Len(errDelays)))

\* One invocation resumes at `from` and suspends (or ends) at `to`.
Move(f, from, to) == [f EXCEPT ![from] = @ - 1, ![to] = @ + 1]
Issue(kind) == issued' = [issued EXCEPT ![kind] = @ + 1]

\* process.exit(code)
Exit(site, code) == exitSite' = site /\ exitCode' = code

Init ==
    /\ nodeIdSet \in BOOLEAN
    /\ authTokenSet \in BOOLEAN
    /\ proxyFile \in 0..MaxProxies
    /\ proxies = <<>>
    /\ topPc = "module"
    /\ mainPc = "idle"
    /\ ipAddress = "undefined"
    /\ hardwareInfo = Null
    /\ fatalCause = "none"
    /\ currentSession = Null
    /\ lastPingTime = Null
    /\ timerSet = FALSE
    /\ cycles = [pc \in CyclePcs |-> 0]
    /\ firings = 0
    /\ handlers = [pc \in HandlerPcs |-> 0]
    /\ signals = 0
    /\ exitSite = "none"
    /\ exitCode = 0
    /\ issued = [k \in Kinds |-> 0]
    /\ lastProxy = 0
    /\ startLog = {}
    /\ pingLog = {}
    /\ stopLog = {}
    /\ nodeData = Null
    /\ errDelays = <<>>
    /\ gatewaySession = Null

\* ------------------------------------------------------------- start-up
\* Mutant of TopLevel: the environment is not validated before the handlers
\* can run.
TopLevelNoValidation ==
    /\ topPc = "module"
    /\ ~exited
    /\ topPc' = "reading"
    /\ UNCHANGED <<envVars, nodeData, errDelays, gatewaySession, proxies, mainVars, currentSession, lastPingTime,
                   cycleVars, sigVars, exitVars, issued, lastProxy, logVars>>

\* Lines 8-72 and 247: the module's top level.  The stream handlers are
\* registered, the environment is validated and the SIGINT handler installed.
TopLevel ==
    /\ topPc = "module"
    /\ ~exited
    /\ IF ~nodeIdSet \/ ~authTokenSet
       THEN Exit("env", 1) /\ UNCHANGED topPc
       ELSE topPc' = "reading" /\ UNCHANGED exitVars
    /\ UNCHANGED <<envVars, nodeData, errDelays, gatewaySession, proxies, mainVars, currentSession, lastPingTime,
                   cycleVars, sigVars, issued, lastProxy, logVars>>

\* Lines 43-46: rl.on('line').
RlLine ==
    /\ topPc = "reading"
    /\ ~exited
    /\ Len(proxies) < proxyFile
    /\ proxies' = Append(proxies, Len(proxies) + 1)
    /\ UNCHANGED <<envVars, nodeData, errDelays, gatewaySession, topPc, mainVars, currentSession, lastPingTime,
                   cycleVars, sigVars, exitVars, issued, lastProxy, logVars>>

\* Mutant of RlClose: main is called without the check for an empty array.
RlCloseNoCheck ==
    /\ topPc = "reading"
    /\ ~exited
    /\ Len(proxies) = proxyFile
    /\ topPc' = "main"
    /\ mainPc' = "settle"
    /\ UNCHANGED <<envVars, nodeData, errDelays, gatewaySession, proxies, ipAddress,
                   hardwareInfo, fatalCause, timerSet, currentSession, lastPingTime,
                   cycleVars, sigVars, exitVars, issued, lastProxy, logVars>>

\* Lines 48-54 and 172-175: rl.on('close'), which calls main(); main runs to
\* its first await, delay(2000).
RlClose ==
    /\ topPc = "reading"
    /\ ~exited
    /\ Len(proxies) = proxyFile
    /\ IF Len(proxies) = 0
       THEN Exit("proxies", 1) /\ UNCHANGED <<topPc, mainPc>>
       ELSE topPc' = "main" /\ mainPc' = "settle" /\ UNCHANGED exitVars
    /\ UNCHANGED <<envVars, nodeData, errDelays, gatewaySession, proxies, ipAddress, hardwareInfo, fatalCause, timerSet,
                   currentSession, lastPingTime, cycleVars, sigVars, issued,
                   lastProxy, logVars>>

\* ------------------------------------------------------------- main
\* Lines 175-178 and 82: the settle delay is over; getIpAddress sends its GET
\* (through `api` directly, not through makeRequest: no proxy is chosen).
MainSettled ==
    /\ mainPc = "settle"
    /\ ~exited
    /\ Issue("ip")
    /\ mainPc' = "ip"
    /\ UNCHANGED <<envVars, nodeData, errDelays, gatewaySession, proxies, topPc, ipAddress, hardwareInfo, fatalCause,
                   timerSet, currentSession, lastPingTime, cycleVars, sigVars,
                   exitVars, lastProxy, logVars>>

\* Lines 178-196 and 94-106: getIpAddress returns, hardwareInfo is captured and
\* makeRequest sends the node-metadata GET through a random proxy.
MainIpDone(resp) ==
    /\ mainPc = "ip"
    /\ ~exited
    /\ ipAddress' = GetIpResult(resp)
    /\ hardwareInfo' = ProcessInfo
    /\ lastProxy' \in GetRandomProxy
    /\ Issue("node")
    /\ mainPc' = "node"
    /\ UNCHANGED <<envVars, nodeData, errDelays, gatewaySession, proxies, topPc, fatalCause, timerSet, currentSession,
                   lastPingTime, cycleVars, sigVars, exitVars, logVars>>

\* Mutant of MainNodeDone: a failed node-metadata GET is ignored and main goes
\* on to startSession.
MainNodeDoneStartAnyway(resp) ==
    /\ mainPc = "node"
    /\ ~exited
    /\ nodeData' = IF MakeRequestOk(resp) THEN Body("node") ELSE Null
    /\ Issue("ip")
    /\ mainPc' = "startIp"
    /\ UNCHANGED <<envVars, errDelays, gatewaySession, proxies, topPc, ipAddress,
                   hardwareInfo, fatalCause, timerSet, currentSession, lastPingTime,
                   cycleVars, sigVars, exitVars, lastProxy, logVars>>

\* Lines 108-116 for the node-metadata GET, then lines 198-201 and 125-127:
\* on status 200 main goes on to startSession, whose getIpAddress sends its
\* GET; otherwise makeRequest logs and waits delay(5000).
MainNodeDone(resp) ==
    /\ mainPc = "node"
    /\ ~exited
    /\ IF MakeRequestOk(resp)
       THEN /\ nodeData' = Body("node")
            /\ Issue("ip")
            /\ mainPc' = "startIp"
            /\ UNCHANGED errDelays
       ELSE /\ StartErrorDelay
            /\ mainPc' = "nodeErrDelay"
            /\ UNCHANGED <<issued, nodeData>>
    /\ UNCHANGED <<envVars, gatewaySession, proxies, topPc, ipAddress, hardwareInfo, fatalCause,
                   timerSet, currentSession, lastPingTime, cycleVars, sigVars,
                   exitVars, lastProxy, logVars>>

\* Lines 117 and 239-241: makeRequest rethrows; nothing between line 189 and
\* main's catch handles it, so main logs "Fatal Error" and waits delay(30000).
MainNodeErrDelayDone ==
    /\ mainPc = "nodeErrDelay"
    /\ ~exited
    /\ fatalCause' = "node"
    /\ mainPc' = "cooldown"
    /\ UNCHANGED <<envVars, nodeData, errDelays, gatewaySession, proxies, topPc, ipAddress, hardwareInfo, timerSet,
                   currentSession, lastPingTime, cycleVars, sigVars, exitVars,
                   issued, lastProxy, logVars>>

\* Lines 127-141: startSession has its ip, builds its own hardwareInfo and
\* sends the start-session POST.
MainStartIpDone(resp) ==
    /\ mainPc = "startIp"
    /\ ~exited
    /\ lastProxy' \in GetRandomProxy
    /\ Issue("start")
    /\ startLog' = startLog \cup
           {[ipAddress |-> GetIpResult(resp), hardwareInfo |-> ProcessInfo]}
    /\ mainPc' = "start"
    /\ UNCHANGED <<envVars, nodeData, errDelays, gatewaySession, proxies, topPc, ipAddress, hardwareInfo, fatalCause,
                   timerSet, currentSession, lastPingTime, cycleVars, sigVars,
                   exitVars, pingLog, stopLog>>

\* Lines 202-204: a falsy session makes main throw into its catch (239-241).
MainStartFailed ==
    /\ fatalCause' = "start"
    /\ mainPc' = "cooldown"
    /\ UNCHANGED timerSet

\* Lines 205-237: the session is logged and setInterval registers the timer;
\* main returns.
MainStartSucceeded ==
    /\ timerSet' = TRUE
    /\ mainPc' = "running"
    /\ UNCHANGED fatalCause

\* The gateway serves the start-session POST of lines 134-141: it creates the
\* session for this run.  Its answer is still on the way; the client may get
\* it, or an error status, or time out first.
GatewayStartSession(body) ==
    /\ mainPc = "start"
    /\ ~exited
    /\ gatewaySession = Null
    /\ Truthy(body)
    /\ gatewaySession' = body
    /\ UNCHANGED <<envVars, nodeData, errDelays, proxies, topPc, mainVars,
                   currentSession, lastPingTime, cycleVars, sigVars, exitVars,
                   issued, lastProxy, logVars>>

\* Lines 108-116 for start-session, then 201-231: on status 200 the body is
\* returned and assigned to currentSession; otherwise delay(5000).  A session
\* object in the body is the one the gateway created.
MainStartDone(resp, body) ==
    /\ mainPc = "start"
    /\ ~exited
    /\ Truthy(body) => gatewaySession = body
    /\ IF MakeRequestOk(resp)
       THEN /\ currentSession' = body
            /\ IF Truthy(body) THEN MainStartSucceeded ELSE MainStartFailed
            /\ UNCHANGED errDelays
       ELSE /\ StartErrorDelay
            /\ mainPc' = "startErrDelay"
            /\ UNCHANGED <<currentSession, fatalCause, timerSet>>
    /\ UNCHANGED <<envVars, nodeData, gatewaySession, proxies, topPc, ipAddress, hardwareInfo, lastPingTime,
                   cycleVars, sigVars, exitVars, issued, lastProxy, logVars>>

\* Lines 117, 142-145 and 201-204: makeRequest rethrows, startSession catches
\* and returns null, main assigns it and throws.
MainStartErrDelayDone ==
    /\ mainPc = "startErrDelay"
    /\ ~exited
    /\ currentSession' = Null
    /\ MainStartFailed
    /\ UNCHANGED <<envVars, nodeData, errDelays, gatewaySession, proxies, topPc, ipAddress, hardwareInfo, lastPingTime,
                   cycleVars, sigVars, exitVars, issued, lastProxy, logVars>>

\* Mutant of MainCooldownDone: the fatal path exits with status 0.
MainCooldownDoneExitZero ==
    /\ mainPc = "cooldown"
    /\ ~exited
    /\ Exit("fatal", 0)
    /\ UNCHANGED <<envVars, nodeData, errDelays, gatewaySession, proxies, topPc, mainVars, currentSession, lastPingTime,
                   cycleVars, sigVars, issued, lastProxy, logVars>>

\* Lines 241-242: the cooldown is over; process.exit(1).
MainCooldownDone ==
    /\ mainPc = "cooldown"
    /\ ~exited
    /\ Exit("fatal", 1)
    /\ UNCHANGED <<envVars, nodeData, errDelays, gatewaySession, proxies, topPc, mainVars, currentSession, lastPingTime,
                   cycleVars, sigVars, issued, lastProxy, logVars>>

Main ==
    \/ MainSettled
    \/ \E resp \in Responses : MainIpDone(resp)
    \/ \E resp \in Responses : MainNodeDone(resp)
    \/ MainNodeErrDelayDone
    \/ \E resp \in Responses : MainStartIpDone(resp)
    \/ \E body \in StartBodies : GatewayStartSession(body)
    \/ \E resp \in Responses, body \in StartBodies : MainStartDone(resp, body)
    \/ MainStartErrDelayDone
    \/ MainCooldownDone

\* ------------------------------------------------------------- ping cycle
\* Lines 209-212: setInterval calls the callback, which runs to its first
\* await, the jitter delay.  Nothing in the code clears the timer and the
\* callback does not look at earlier invocations.  A jitter delay started at
\* the previous firing has expired by now when it is shorter than the period.
TimerFire ==
    /\ timerSet
    /\ ~exited
    /\ (JITTER_BASE + JITTER_SPAN <= PING_INTERVAL) => cycles["jitter"] = 0
    /\ firings < MaxFirings
    /\ firings' = firings + 1
    /\ cycles' = [cycles EXCEPT !["jitter"] = @ + 1]
    /\ UNCHANGED <<envVars, nodeData, errDelays, gatewaySession, proxies, topPc, mainVars, currentSession, lastPingTime,
                   sigVars, exitVars, issued, lastProxy, logVars>>

\* Lines 212-214 and 82: the jitter is over; getIpAddress sends its GET.
CycleJitterDone ==
    /\ cycles["jitter"] > 0
    /\ ~exited
    /\ Issue("ip")
    /\ cycles' = Move(cycles, "jitter", "ip")
    /\ UNCHANGED <<envVars, nodeData, errDelays, gatewaySession, proxies, topPc, mainVars, currentSession, lastPingTime,
                   firings, sigVars, exitVars, lastProxy, logVars>>

\* Mutant of PingBody: the ping carries a fixed identifier instead of the one
\* start-session returned.
PingBodyFixedId(currentIp) ==
    [ipAddress |-> currentIp, hardwareInfo |-> hardwareInfo, sessionId |-> "sess-1"]

\* Mutant of PingBody: the ping reads a field its argument does not have and
\* sends no hardware info.
PingBodyNoHardware(currentIp) ==
    [ipAddress |-> currentIp, hardwareInfo |-> Null,
     sessionId |-> currentSession._id]

\* sendPing, lines 153-158: the body of the ping request.  ipAddress and
\* hardwareInfo come from the callback's argument, sessionId from the global.
PingBody(currentIp) ==
    [ipAddress |-> currentIp, hardwareInfo |-> hardwareInfo,
     sessionId |-> currentSession._id]

\* Mutant of CycleIpDone: a failed IP resolution ends the cycle without a ping.
CycleIpDoneSkipUnknown(resp) ==
    /\ cycles["ip"] > 0
    /\ ~exited
    /\ IF GetIpResult(resp) = "unknown"
       THEN /\ cycles' = Move(cycles, "ip", "failed")
            /\ UNCHANGED <<issued, pingLog, lastProxy>>
       ELSE /\ lastProxy' \in GetRandomProxy
            /\ Issue("ping")
            /\ pingLog' = pingLog \cup
                   {[ipAddress |-> GetIpResult(resp), hardwareInfo |-> hardwareInfo,
                     sessionId |-> currentSession._id]}
            /\ cycles' = Move(cycles, "ip", "ping")
    /\ UNCHANGED <<envVars, nodeData, errDelays, gatewaySession, proxies, topPc, mainVars, currentSession, lastPingTime,
                   firings, sigVars, exitVars, startLog, stopLog>>

\* Lines 214-220 and 149-159: getIpAddress returns (it never throws) and
\* sendPing sends the ping POST through makeRequest.
CycleIpDone(resp) ==
    /\ cycles["ip"] > 0
    /\ ~exited
    /\ lastProxy' \in GetRandomProxy
    /\ Issue("ping")
    /\ pingLog' = pingLog \cup {PingBody(GetIpResult(resp))}
    /\ cycles' = Move(cycles, "ip", "ping")
    /\ UNCHANGED <<envVars, nodeData, errDelays, gatewaySession, proxies, topPc, mainVars, currentSession, lastPingTime,
                   firings, sigVars, exitVars, startLog, stopLog>>

\* Mutant of CyclePingDone: makeRequest rethrows at once, without its delay.
CyclePingDoneNoDelay(resp) ==
    /\ cycles["ping"] > 0
    /\ ~exited
    /\ IF MakeRequestOk(resp)
       THEN lastPingTime' = Date /\ cycles' = Move(cycles, "ping", "done")
       ELSE cycles' = Move(cycles, "ping", "failed") /\ UNCHANGED lastPingTime
    /\ UNCHANGED <<envVars, nodeData, errDelays, gatewaySession, proxies, topPc,
                   mainVars, currentSession, firings, sigVars, exitVars, issued,
                   lastProxy, logVars>>

\* Lines 108-116 for the ping, then 222-226: on status 200 the callback records
\* lastPingTime and ends; otherwise makeRequest waits delay(5000).
CyclePingDone(resp) ==
    /\ cycles["ping"] > 0
    /\ ~exited
    /\ IF MakeRequestOk(resp)
       THEN /\ lastPingTime' = Date
            /\ cycles' = Move(cycles, "ping", "done")
            /\ UNCHANGED errDelays
       ELSE /\ StartErrorDelay
            /\ cycles' = Move(cycles, "ping", "errDelay")
            /\ UNCHANGED lastPingTime
    /\ UNCHANGED <<envVars, nodeData, gatewaySession, proxies, topPc, mainVars, currentSession, firings,
                   sigVars, exitVars, issued, lastProxy, logVars>>

\* Mutant of CycleErrDelayDone: the rethrown error is caught nowhere and the
\* unhandled rejection ends the process.
CycleErrDelayDoneUncaught ==
    /\ cycles["errDelay"] > 0
    /\ ~exited
    /\ cycles' = Move(cycles, "errDelay", "failed")
    /\ Exit("uncaught", 1)
    /\ UNCHANGED <<envVars, nodeData, errDelays, gatewaySession, proxies, topPc, mainVars, currentSession, lastPingTime,
                   firings, sigVars, issued, lastProxy, logVars>>

\* Lines 117, 160-163 and 222: makeRequest rethrows, sendPing catches and
\* returns null, and the callback ends without touching anything.
CycleErrDelayDone ==
    /\ cycles["errDelay"] > 0
    /\ ~exited
    /\ cycles' = Move(cycles, "errDelay", "failed")
    /\ UNCHANGED <<envVars, nodeData, errDelays, gatewaySession, proxies, topPc, mainVars, currentSession, lastPingTime,
                   firings, sigVars, exitVars, issued, lastProxy, logVars>>

Cycle ==
    \/ CycleJitterDone
    \/ \E resp \in Responses : CycleIpDone(resp)
    \/ \E resp \in Responses : CyclePingDone(resp)
    \/ CycleErrDelayDone

\* ------------------------------------------------------------- shutdown
\* Lines 247-254 and 260: the SIGINT handler runs to its await.  Without a
\* session it exits at once; with one, makeRequest sends the stop-session POST.
\* Each delivery of the signal is a new invocation of the handler.
Sigint ==
    /\ topPc # "module"
    /\ ~exited
    /\ signals < MaxSignals
    /\ signals' = signals + 1
    /\ IF Truthy(currentSession)
       THEN /\ lastProxy' \in GetRandomProxy
            /\ Issue("stop")
            /\ stopLog' = stopLog \cup {[sessionId |-> currentSession._id]}
            /\ handlers' = [handlers EXCEPT !["stop"] = @ + 1]
            /\ UNCHANGED exitVars
       ELSE /\ Exit("sigint", 0)
            /\ UNCHANGED <<handlers, issued, lastProxy, stopLog>>
    /\ UNCHANGED <<envVars, nodeData, errDelays, gatewaySession, proxies, topPc, mainVars, currentSession, lastPingTime,
                   cycleVars, startLog, pingLog>>

\* Lines 108-116 for stop-session, then 255 and 260: on status 200 the handler
\* logs and exits with 0; otherwise makeRequest waits delay(5000).
StopDone(resp) ==
    /\ handlers["stop"] > 0
    /\ ~exited
    /\ IF MakeRequestOk(resp)
       THEN /\ Exit("sigint", 0)
            /\ UNCHANGED <<handlers, errDelays>>
       ELSE /\ StartErrorDelay
            /\ handlers' = Move(handlers, "stop", "errDelay")
            /\ UNCHANGED exitVars
    /\ UNCHANGED <<envVars, nodeData, gatewaySession, proxies, topPc, mainVars, currentSession, lastPingTime,
                   cycleVars, signals, issued, lastProxy, logVars>>

\* Mutant of StopErrDelayDone: a failed stop-session exits with status 1.
StopErrDelayDoneExitOne ==
    /\ handlers["errDelay"] > 0
    /\ ~exited
    /\ Exit("sigint", 1)
    /\ UNCHANGED <<envVars, nodeData, errDelays, gatewaySession, proxies, topPc, mainVars, currentSession, lastPingTime,
                   cycleVars, sigVars, issued, lastProxy, logVars>>

\* Lines 117 and 256-260: makeRequest rethrows, the handler logs and exits
\* with 0.
StopErrDelayDone ==
    /\ handlers["errDelay"] > 0
    /\ ~exited
    /\ Exit("sigint", 0)
    /\ UNCHANGED <<envVars, nodeData, errDelays, gatewaySession, proxies, topPc, mainVars, currentSession, lastPingTime,
                   cycleVars, sigVars, issued, lastProxy, logVars>>

Shutdown ==
    \/ Sigint
    \/ \E resp \in Responses : StopDone(resp)
    \/ StopErrDelayDone

Next == TopLevel \/ RlLine \/ RlClose \/ Main \/ TimerFire \/ Cycle \/ Shutdown

Spec == Init /\ [][Next]_vars

\* Every outbound request completes or times out (axios timeout, line 64),
\* every setTimeout delay elapses and every stream event is delivered.  The
\* arrival of signals and the number of timer firings stay unconstrained.
FairSpec ==
    /\ Spec
    /\ WF_vars(TopLevel \/ RlLine \/ RlClose)
    /\ WF_vars(Main)
    /\ WF_vars(CycleJitterDone)
    /\ WF_vars(\E resp \in Responses : CycleIpDone(resp))
    /\ WF_vars(\E resp \in Responses : CyclePingDone(resp))
    /\ WF_vars(CycleErrDelayDone)
    /\ WF_vars(\E resp \in Responses : StopDone(resp))
    /\ WF_vars(StopErrDelayDone)

\* ------------------------------------------------------------- derived
\* Invocations of the timer callback that have not ended.
ActiveCycles == cycles["jitter"] + cycles["ip"] + cycles["ping"] + cycles["errDelay"]
\* Invocations of the timer callback that have not yet sent their ping.
PendingPing == cycles["jitter"] + cycles["ip"]
\* Requests sent and not yet answered.
InFlight ==
    (IF mainPc \in {"ip", "node", "startIp", "start"} THEN 1 ELSE 0)
      + cycles["ip"] + cycles["ping"] + handlers["stop"]
\* The start-session call is over and did not yield a session.
StartFailed == issued["start"] > 0 /\ mainPc # "start" /\ ~Truthy(currentSession)

\* ------------------------------------------------------------- claims

\* C1: a ping request is issued only once start-session has returned a session
\* and the timer is registered, and every ping request carries the _id of the
\* session that start-session returned.
C1_PingOnlyWithSession ==
    /\ (issued["ping"] > 0 \/ firings > 0) =>
          /\ Truthy(currentSession)
          /\ mainPc = "running"
    /\ \A b \in pingLog : b.sessionId = currentSession._id

C1_Witness ==
    /\ issued["ping"] = MaxFirings
    /\ currentSession = Body("sess-2")
    /\ pingLog # {}

\* C2 (as claimed): once a signal was delivered with a session active, exactly
\* one stop-session request has been issued, however many signals came.
C2_ExactlyOneStop ==
    (signals > 0 /\ Truthy(currentSession)) =>
        /\ issued["stop"] = 1
        /\ stopLog = {[sessionId |-> currentSession._id]}

\* C3: after a SIGINT was delivered the process eventually exits, with exit
\* status 0, whether stop-session succeeded, failed or timed out.
C3_SigintExitsZero == (signals > 0) ~> (exited /\ exitCode = 0)

C3_Witness ==
    /\ exitSite = "sigint"
    /\ exitCode = 0
    /\ signals = 1
    /\ handlers["errDelay"] = 1

\* C4: a failed ping does not end the process, leaves the timer registered (the
\* next firing is still enabled) and leaves currentSession as it was.
C4_PingFailureContained ==
    /\ []((cycles["errDelay"] + cycles["failed"] > 0) =>
             /\ timerSet
             /\ Truthy(currentSession)
             /\ (exited => exitSite = "sigint")
             /\ ((~exited /\ firings < MaxFirings /\ cycles["jitter"] = 0)
                    => ENABLED TimerFire))
    /\ [][/\ (Truthy(currentSession) => currentSession' = currentSession)
          /\ (timerSet => timerSet')
          /\ ((\E pc \in {"errDelay", "failed"} : cycles'[pc] > cycles[pc])
                 => ~exited')]_vars

C4_Witness ==
    /\ cycles["failed"] = MaxFirings
    /\ ~exited
    /\ timerSet
    /\ Truthy(currentSession)

\* C5 (as claimed): at most one ping cycle is active and at most one outbound
\* request is in flight at any time.  Stated for the states before any SIGINT,
\* so that the stop-session requests of the shutdown path play no part.
C5_NoOverlap ==
    signals = 0 =>
        /\ ActiveCycles <= 1
        /\ InFlight <= 1

\* C6 (as claimed): once a SIGINT has been received the timer starts no new
\* cycle and no ping request is issued.
C6_NoPingAfterSigint ==
    [][signals > 0 => (firings' = firings /\ issued'["ping"] = issued["ping"])]_vars

\* C7 (as claimed): the process ends only through the shutdown signal, a
\* configuration failure or a session-start failure.
C7_OnlyStartOrConfigIsFatal ==
    exited =>
        \/ exitSite \in {"sigint", "env", "proxies"}
        \/ exitSite = "fatal" /\ fatalCause = "start"

\* C8: with NODE_ID or AUTH_TOKEN missing the only way out is exit code 1 at
\* the validation, and no request of any kind is ever issued, whatever the
\* proxy file holds and whenever its events are delivered.
C8_MissingEnvExitsBeforeNetwork ==
    (~nodeIdSet \/ ~authTokenSet) =>
        /\ \A k \in Kinds : issued[k] = 0
        /\ InFlight = 0
        /\ mainPc = "idle"
        /\ proxies = <<>>
        /\ exited => (exitSite = "env" /\ exitCode = 1)

C8_Witness ==
    /\ ~authTokenSet
    /\ proxyFile = MaxProxies
    /\ exitSite = "env"
    /\ exitCode = 1

\* C9 (as claimed): after a failed start-session the session stays unset, the
\* timer is never registered, and the run ends with exit code 1 only.
C9_StartFailureExitsOne ==
    StartFailed =>
        /\ ~timerSet
        /\ firings = 0
        /\ exited => (exitSite = "fatal" /\ exitCode = 1 /\ mainPc = "cooldown")

\* C9 (amended): after a failed start-session the session stays unset, the
\* timer is never registered, no further request is issued, and the process
\* ends: with exit code 1 once the cooldown delay has elapsed, or with exit
\* code 0 when a SIGINT is delivered before that.
C9_StartFailureAborts ==
    /\ [](StartFailed =>
             /\ ~timerSet
             /\ firings = 0
             /\ issued["ping"] = 0
             /\ issued["stop"] = 0
             /\ InFlight = 0
             /\ exited =>
                   \/ exitSite = "fatal" /\ exitCode = 1 /\ mainPc = "cooldown"
                   \/ exitSite = "sigint" /\ exitCode = 0 /\ signals > 0)
    /\ [][StartFailed => (issued' = issued /\ StartFailed')]_vars
    /\ (StartFailed ~> exited)

C9_Witness ==
    /\ StartFailed
    /\ exitSite = "fatal"
    /\ exitCode = 1
    /\ signals = 0

\* C10: every firing of the timer produces exactly one ping request: the
\* pings issued plus the cycles that have not yet reached their ping equal the
\* firings, so N completed cycles have issued exactly N pings.
C10_OnePingPerFiring ==
    /\ issued["ping"] + PendingPing = firings
    /\ ActiveCycles + cycles["done"] + cycles["failed"] = firings

C10_Witness ==
    /\ firings = MaxFirings
    /\ cycles["done"] = MaxFirings
    /\ issued["ping"] = MaxFirings
    /\ ~exited

\* C11 (as claimed): without a session shutdown issues no stop-session request,
\* and once the handler has done its stop step the session is unset.
C11_StopEndsInNoSession ==
    /\ ~Truthy(currentSession) => issued["stop"] = 0
    /\ (exitSite = "sigint" /\ issued["stop"] > 0) => ~Truthy(currentSession)

AfterIp == issued["node"] + issued["start"] + issued["ping"]
IpInFlight == (IF mainPc \in {"ip", "startIp"} THEN 1 ELSE 0) + cycles["ip"]

\* C13: getIpAddress never throws: every IP resolution that has ended, with
\* whatever outcome, was followed by the caller's request; a failed one makes
\* the caller send ipAddress "unknown", and no other value than an address or
\* that sentinel is ever sent.
C13_IpFailureYieldsUnknown ==
    /\ [](/\ issued["ip"] = IpInFlight + AfterIp
          /\ ipAddress \in {"undefined", "1.2.3.4", "unknown"}
          /\ mainPc \notin {"idle", "settle", "ip"} => ipAddress # "undefined"
          /\ \A b \in startLog \cup pingLog : b.ipAddress \in {"1.2.3.4", "unknown"})
    /\ [][\A resp \in Responses :
            (resp.kind = "error" \/ resp.status # 200) =>
                /\ MainIpDone(resp) => (ipAddress' = "unknown" /\ mainPc' = "node")
                /\ MainStartIpDone(resp) =>
                      [ipAddress |-> "unknown", hardwareInfo |-> ProcessInfo]
                          \in startLog'
                /\ CycleIpDone(resp) =>
                      /\ issued'["ping"] = issued["ping"] + 1
                      /\ \E b \in pingLog' : b.ipAddress = "unknown"]_vars

C13_Witness ==
    /\ ipAddress = "unknown"
    /\ \E b \in startLog : b.ipAddress = "unknown"
    /\ pingLog # {}
    /\ \A b \in pingLog : b.ipAddress = "unknown"
    /\ ~exited

\* C14 (as claimed): the delay after a failed request grows with the number of
\* consecutive failures.  Before any SIGINT and while no ping has succeeded,
\* the failures recorded in errDelays are consecutive failed pings.
C14_BackoffGrows ==
    (lastPingTime = Null /\ signals = 0) =>
        \A i \in 1..(Len(errDelays) - 1) : errDelays[i + 1] > errDelays[i]

\* C15: the hardwareInfo captured by main is never changed, and the one in
\* every start-session and ping body equals it.
C15_HardwareInfoReused ==
    /\ [](/\ (startLog \cup pingLog # {}) => hardwareInfo # Null
          /\ \A b \in startLog \cup pingLog : b.hardwareInfo = hardwareInfo)
    /\ [][hardwareInfo # Null => hardwareInfo' = hardwareInfo]_vars

C15_Witness ==
    /\ hardwareInfo = ProcessInfo
    /\ startLog # {}
    /\ issued["ping"] = MaxFirings
    /\ Cardinality(pingLog) > 1

\* C16: start-up is ordered: settle delay, IP resolution, node-metadata GET,
\* start-session with its own IP resolution, timer registration; each step
\* begins after the one before has ended, and start-session is only reached
\* with the node metadata in hand.
C16_StartupOrder ==
    /\ issued["node"] <= 1
    /\ issued["start"] <= 1
    /\ mainPc \in {"idle", "settle"} => \A k \in Kinds : issued[k] = 0
    /\ issued["node"] > 0 =>
          /\ issued["ip"] >= 1
          /\ mainPc \notin {"idle", "settle", "ip"}
          /\ ipAddress # "undefined"
          /\ hardwareInfo # Null
    /\ mainPc \in {"node", "nodeErrDelay"} =>
          (issued["ip"] = 1 /\ issued["start"] = 0 /\ nodeData = Null)
    /\ mainPc = "startIp" =>
          (nodeData # Null /\ issued["ip"] = 2 /\ issued["start"] = 0)
    /\ issued["start"] > 0 =>
          /\ nodeData # Null
          /\ issued["node"] = 1
          /\ issued["ip"] >= 2
          /\ mainPc \in {"start", "startErrDelay", "cooldown", "running"}
    /\ mainPc \in {"ip", "node", "startIp", "start"} =>
          (~timerSet /\ firings = 0 /\ InFlight = 1)
    /\ timerSet =>
          (issued["start"] = 1 /\ Truthy(currentSession) /\ mainPc = "running")
    /\ firings > 0 => timerSet

C16_Witness ==
    /\ timerSet
    /\ firings = 0
    /\ nodeData # Null
    /\ issued["ip"] = 2
    /\ issued["start"] = 1

C18_OnlyStatus200NoRetry ==
    /\ [](issued["ping"] = cycles["ping"] + cycles["errDelay"] + cycles["done"]
                              + cycles["failed"])
    /\ [][\A resp \in Responses :
            LET ok == resp.kind = "response" /\ resp.status = 200
                failed == issued' = issued /\ Len(errDelays') = Len(errDelays) + 1
            IN  /\ MainNodeDone(resp) =>
                      IF ok THEN nodeData' # Null /\ errDelays' = errDelays
                            ELSE nodeData' = Null /\ mainPc' = "nodeErrDelay" /\ failed
                /\ \A body \in StartBodies : MainStartDone(resp, body) =>
                      IF ok THEN currentSession' = body /\ errDelays' = errDelays
                            ELSE currentSession' = currentSession
                                   /\ mainPc' = "startErrDelay" /\ failed
                /\ CyclePingDone(resp) =>
                      IF ok THEN cycles'["done"] = cycles["done"] + 1
                                   /\ errDelays' = errDelays /\ issued' = issued
                            ELSE cycles'["errDelay"] = cycles["errDelay"] + 1 /\ failed
                /\ StopDone(resp) =>
                      IF ok THEN exited' /\ errDelays' = errDelays
                            ELSE ~exited' /\ failed]_vars

C18_Witness ==
    /\ cycles["done"] > 0
    /\ cycles["failed"] > 0
    /\ handlers["errDelay"] > 0
    /\ exited

\* C19: once a session is set the process can only end through the SIGINT
\* handler, with exit code 0; exit code 1 occurs only without a session and
\* without the timer.
C19_ExitOneOnlyBeforeSession ==
    /\ (Truthy(currentSession) /\ exited) => (exitSite = "sigint" /\ exitCode = 0)
    /\ (exited /\ exitCode = 1) =>
          (~Truthy(currentSession) /\ ~timerSet /\ issued["ping"] = 0)

C19_Witness ==
    /\ Truthy(currentSession)
    /\ cycles["failed"] > 0
    /\ handlers["errDelay"] > 0
    /\ exitSite = "sigint"
    /\ exitCode = 0

\* C20 (as claimed): when the gateway has created a session for this run and
\* the process exits through the SIGINT handler, a stop-session request for
\* that session was issued before.
C20_NoSessionLeak ==
    (exitSite = "sigint" /\ Truthy(gatewaySession)) =>
        [sessionId |-> gatewaySession._id] \in stopLog
====
